---- MODULE Spec2Model ----
(***************************************************************************)
(* Chunk conveyor of tomocupy's GPURec (src/src/tomocupy/rec.py).          *)
(* recon_all is modelled statement by statement: one action per blocking   *)
(* or asynchronous step of the loop body, the three CUDA streams as        *)
(* in-order queues of pending operations, the write pool as a set of       *)
(* running jobs, and the reader side as a thread feeding data_queue.       *)
(***************************************************************************)
EXTENDS Integers, Sequences, FiniteSets, TLC

\* ---------------------------------------------------------------- bounds
MaxChunks == 3
MaxWrite == 2
MaxRead == 2
HalfNcz == 1
MaxN == 2

\* ------------------------------------------------------ program constants
QueueCap == 32

\* (args.start_row, args.binning) the runs are started with
RowArgs == {<<3, 1>>}

\* valid rows of the last chunk: a single row, or a full chunk
LastRows == {1, 2 * HalfNcz}

Names == {"data", "dark", "flat"}
Gens == {0, 1}
Empty == -1

VARIABLES
  params,        \* params.nzchunk, params.lzchunk, params.ncz
  args,          \* args.max_write_threads, max_read_threads, start_row, binning
  pc,            \* position of the scheduler inside recon_all
  k,             \* loop counter of the conveyor
  ids,           \* chunk ids in the order they were pulled from the queue
  ithread,       \* write slot chosen by find_free_thread
  st, end,       \* row range of the chunk being processed / written
  t,             \* index of the final join loop
  data_queue,    \* items in the queue (each item is represented by its id)
  item_pinned,   \* [name][gen][row] -> id of the chunk the row belongs to
  item_gpu,      \* [name][gen][row]
  rec_gpu,       \* [gen][row]
  rec_pinned,    \* [slot][row]
  stream1, stream2, stream3,   \* pending operations of each stream
  write_threads, \* [slot] -> thread object currently held by the slot
  wjobs,         \* write jobs that are running
  wdone,         \* write jobs that have finished
  read_next,     \* next chunk the reader thread will hand to a read slot
  read_threads,  \* [slot] -> thread object currently held by the read slot
  rjobs,         \* read jobs that are running
  enqueued,      \* history: ids in the order they entered the queue
  trace,         \* history: stage entries of the scheduler, in program order
  synced,        \* history: [stream] -> positions whose op was synchronized
  islice,        \* recon_try: index of id_slice in params.id_slices
  kk,            \* recon_try: counter of the write loop of one chunk slot
  data,          \* recon_try: the preprocessed slice held on the gpu
  bp_pc,         \* backprojection: position inside FourierRec.backprojection
  bp_nz, bp_n,   \* backprojection: self.nz, self.n
  bp_vol,        \* history: the volume backprojection was entered with
  bp_data,       \* backprojection: the input buffer
  bp_obj         \* backprojection: the output buffer

vars == <<params, args, pc, k, ids, ithread, st, end, t, data_queue,
          item_pinned, item_gpu, rec_gpu, rec_pinned,
          stream1, stream2, stream3, write_threads, wjobs, wdone,
          read_next, read_threads, rjobs, enqueued, trace, synced,
          islice, kk, data, bp_pc, bp_nz, bp_n, bp_vol, bp_data, bp_obj>>

cfgVars == <<params, args>>
schedVars == <<pc, k, ids, ithread, st, end, t>>
bufVars == <<item_pinned, item_gpu, rec_gpu, rec_pinned>>
streamVars == <<stream1, stream2, stream3>>
writeVars == <<write_threads, wjobs, wdone>>
readVars == <<read_next, read_threads, rjobs, enqueued>>
tryVars == <<islice, kk, data>>
bpVars == <<bp_pc, bp_nz, bp_n, bp_vol, bp_data, bp_obj>>

\* ------------------------------------------------------------- helpers
ncz == 2 * HalfNcz
Rows == 0 .. (ncz - 1)
nzchunk == params.nzchunk
lzchunk == params.lzchunk

Pow2(n) == IF n = 0 THEN 1 ELSE IF n = 1 THEN 2 ELSE IF n = 2 THEN 4 ELSE 8

\* args.start_row // 2**args.binning
RowOffset == args.start_row \div Pow2(args.binning)

WSlots == 0 .. (args.max_write_threads - 1)
RSlots == 0 .. (args.max_read_threads - 1)

\* valid-row counts: every chunk is full except possibly the last one
LzChunkOf(n, last) == [i \in 0 .. (n - 1) |-> IF i = n - 1 THEN last ELSE ncz]

\* ids is a 1-based sequence; ids[k] of the code is idAt(k)
idAtPos(j) == j
idAt(j) == ids[j + 1]

\* utils.WRThread.is_alive
is_alive(threads, jobs, s) == \E j \in jobs : j.tid = threads[s] /\ j.slot = s

FreeSlots(threads, jobs, slots) == {s \in slots : ~is_alive(threads, jobs, s)}

\* ------------------------------------------------------------------ Init
\* state at the entry of recon_all for n chunks (the last one of `last` rows),
\* w write slots, nr read slots and the row arguments ra
InitWith(n, last, w, nr, ra) ==
  /\ params = [nzchunk |-> n, lzchunk |-> LzChunkOf(n, last), ncz |-> ncz]
  /\ args = [max_write_threads |-> w, max_read_threads |-> nr,
             start_row |-> ra[1], binning |-> ra[2]]
  /\ pc = "rec"
  /\ k = 0
  /\ ids = <<>>
  /\ ithread = 0
  /\ st = 0
  /\ end = 0
  /\ t = 0
  /\ data_queue = <<>>
  /\ item_pinned = [nm \in Names |-> [g \in Gens |-> [r \in Rows |-> Empty]]]
  /\ item_gpu = [nm \in Names |-> [g \in Gens |-> [r \in Rows |-> Empty]]]
  /\ rec_gpu = [g \in Gens |-> [r \in Rows |-> Empty]]
  /\ rec_pinned = [ws \in 0 .. (args.max_write_threads - 1) |-> [r \in Rows |-> Empty]]
  /\ stream1 = <<>>
  /\ stream2 = <<>>
  /\ stream3 = <<>>
  /\ write_threads = [ws \in 0 .. (args.max_write_threads - 1) |-> Empty]
  /\ wjobs = {}
  /\ wdone = {}
  /\ read_next = 0
  /\ read_threads = [rs \in 0 .. (args.max_read_threads - 1) |-> Empty]
  /\ rjobs = {}
  /\ enqueued = <<>>
  /\ trace = <<>>
  /\ synced = [s \in 1 .. 3 |-> {}]

\* recon_try is not running
TryIdle ==
  /\ islice = 0
  /\ kk = 0
  /\ data = Empty

\* backprojection is not running
BpIdle ==
  /\ bp_pc = "idle"
  /\ bp_nz = 0
  /\ bp_n = 0
  /\ bp_vol = <<>>
  /\ bp_data = <<>>
  /\ bp_obj = <<>>

Init ==
  /\ \E n \in 0 .. MaxChunks, last \in LastRows, w \in 1 .. MaxWrite, r \in 1 .. MaxRead,
        ra \in RowArgs : InitWith(n, last, w, r, ra)
  /\ TryIdle
  /\ BpIdle

\* a run with more chunks than the queue holds; last chunk of one row, one write
\* slot, one read slot
BigInit ==
  /\ \E ra \in RowArgs : InitWith(QueueCap + 2, 1, 1, 1, ra)
  /\ TryIdle
  /\ BpIdle

\* ------------------------------------------------------ stage bookkeeping
Event(stage, pos, g, rows) ==
  [k |-> k, stage |-> stage, pos |-> pos, id |-> idAt(pos), gen |-> g, rows |-> rows]

\* positions whose operation of the given stage has been issued so far
IssuedOn(stage) == {trace[i].pos : i \in {n \in 1 .. Len(trace) : trace[n].stage = stage}}

\* generation used by the conveyor for the chunk at pipeline position pos
GenOfIter(pos) == k % 2
GenOf(pos) == pos % 2

\* first row of chunk id in the output volume, and one past its last row
StOfNoOffset(id) == id * ncz
StOf(id) == id * ncz + RowOffset
EndOfFull(id) == StOf(id) + ncz
EndOf(id) == StOf(id) + lzchunk[id]

\* rows of a staging buffer filled from an item: [:, :lzchunk[id]]
StagedRows(id) == 0 .. (lzchunk[id] - 1)

\* rows moved by a whole-buffer copy or kernel (set/get/backprojection of a generation)
BufferRows == Rows

\* utils.find_free_thread: the first slot that is not alive (blocks while none is)
find_free_thread(threads, jobs, slots) ==
  CHOOSE s \in FreeSlots(threads, jobs, slots) :
    \A o \in FreeSlots(threads, jobs, slots) : s <= o

\* positions whose operation of the given stage is issued and no longer pending
Completed(stream, stage) == IssuedOn(stage) \ {stream[i].pos : i \in 1 .. Len(stream)}

\* Queue.get(): index of the item a get() removes (a LifoQueue would take the newest)
QueuePickLifo(q) == Len(q)
QueuePick(q) == 1

\* Queue(32): a put() waits while the queue holds maxsize items
QueueFullNever(q) == FALSE
QueueFull(q) == Len(q) >= QueueCap

QueueWithout(q, i) == SubSeq(q, 1, i - 1) \o SubSeq(q, i + 1, Len(q))

\* loop conditions of the conveyor
ComputeFiresShort == k > 0 /\ k < nzchunk
ComputeFires == k > 0 /\ k < nzchunk + 1

EgestFiresLate == k > 2
EgestFires == k > 1

IngestFiresLong == k < nzchunk + 1
IngestFires == k < nzchunk

LoopContinues(ki) == ki < nzchunk + 2

\* ------------------------------------------------- scheduler: recon_all
\* lines 158-172: reconstruction of chunk k-1 on stream2
Reconstruct ==
  /\ pc = "rec"
  /\ IF ComputeFires
       THEN /\ st' = StOf(idAt(k - 1))
            /\ end' = EndOf(idAt(k - 1))
            /\ stream2' = Append(stream2,
                 [op |-> "rec", name |-> "rec", gen |-> GenOf(k - 1), pos |-> k - 1,
                  slot |-> Empty, rows |-> BufferRows])
            /\ trace' = Append(trace, Event("compute", k - 1, GenOf(k - 1), BufferRows))
       ELSE UNCHANGED <<st, end, stream2, trace>>
  /\ pc' = IF EgestFires THEN "find" ELSE "ingest"
  /\ UNCHANGED <<cfgVars, tryVars, bpVars, k, ids, ithread, t, data_queue, bufVars, stream1, stream3,
                 writeVars, readVars, synced>>

\* variant: the slot is taken without asking the pool for a free one
FindFreeThreadFixed ==
  /\ pc = "find"
  /\ ithread' = 0
  /\ pc' = "copy"
  /\ UNCHANGED <<cfgVars, tryVars, bpVars, k, ids, st, end, t, data_queue, bufVars, streamVars,
                 writeVars, readVars, trace, synced>>

\* line 177: ithread = utils.find_free_thread(self.write_threads)
FindFreeThread ==
  /\ pc = "find"
  /\ FreeSlots(write_threads, wjobs, WSlots) # {}
  /\ ithread' = find_free_thread(write_threads, wjobs, WSlots)
  /\ pc' = "copy"
  /\ UNCHANGED <<cfgVars, tryVars, bpVars, k, ids, st, end, t, data_queue, bufVars, streamVars,
                 writeVars, readVars, trace, synced>>

\* line 178: rec_gpu[(k-2) % 2].get(out=rec_pinned[ithread]) on stream3
CopyOut ==
  /\ pc = "copy"
  /\ stream3' = Append(stream3,
       [op |-> "d2h", name |-> "rec", gen |-> GenOf(k - 2), pos |-> k - 2,
        slot |-> ithread, rows |-> BufferRows])
  /\ trace' = Append(trace, Event("copyout", k - 2, GenOf(k - 2), BufferRows))
  /\ pc' = "ingest"
  /\ UNCHANGED <<cfgVars, tryVars, bpVars, k, ids, ithread, st, end, t, data_queue, bufVars,
                 stream1, stream2, writeVars, readVars, synced>>

\* lines 179-190: pull an item, stage it in pinned memory, issue the cpu->gpu copies
Ingest ==
  /\ pc = "ingest"
  /\ IF IngestFires
       THEN /\ data_queue # <<>>
            /\ LET item == data_queue[QueuePick(data_queue)]
                   g == GenOf(k)
               IN /\ data_queue' = QueueWithout(data_queue, QueuePick(data_queue))
                  /\ ids' = Append(ids, item)
                  /\ item_pinned' = [nm \in Names |->
                       [item_pinned[nm] EXCEPT ![g] =
                          [r \in Rows |-> IF r \in StagedRows(item) THEN item ELSE @[r]]]]
                  /\ stream1' = stream1 \o
                       << [op |-> "h2d", name |-> "data", gen |-> g, pos |-> k,
                           slot |-> Empty, rows |-> BufferRows],
                          [op |-> "h2d", name |-> "dark", gen |-> g, pos |-> k,
                           slot |-> Empty, rows |-> BufferRows],
                          [op |-> "h2d", name |-> "flat", gen |-> g, pos |-> k,
                           slot |-> Empty, rows |-> BufferRows] >>
                  /\ trace' = trace \o
                       << [k |-> k, stage |-> "ingest", pos |-> k, id |-> item,
                           gen |-> g, rows |-> StagedRows(item)],
                          [k |-> k, stage |-> "copyin", pos |-> k, id |-> item,
                           gen |-> g, rows |-> BufferRows] >>
       ELSE UNCHANGED <<data_queue, ids, item_pinned, stream1, trace>>
  /\ pc' = "sync3"
  /\ UNCHANGED <<cfgVars, tryVars, bpVars, k, ithread, st, end, t, item_gpu, rec_gpu, rec_pinned,
                 stream2, stream3, writeVars, readVars, synced>>

\* variant: the transfer-out stream is not waited for
Sync3NoWait ==
  /\ pc = "sync3"
  /\ synced' = [synced EXCEPT ![3] = Completed(stream3, "copyout")]
  /\ pc' = IF EgestFires THEN "run" ELSE "sync1"
  /\ UNCHANGED <<cfgVars, tryVars, bpVars, k, ids, ithread, st, end, t, data_queue, bufVars,
                 streamVars, writeVars, readVars, trace>>

\* line 191: self.stream3.synchronize()
Sync3 ==
  /\ pc = "sync3"
  /\ stream3 = <<>>
  /\ synced' = [synced EXCEPT ![3] = Completed(stream3, "copyout")]
  /\ pc' = IF EgestFires THEN "run" ELSE "sync1"
  /\ UNCHANGED <<cfgVars, tryVars, bpVars, k, ids, ithread, st, end, t, data_queue, bufVars,
                 streamVars, writeVars, readVars, trace>>

\* lines 192-197: hand the landing area to the chosen write slot
Dispatch ==
  /\ pc = "run"
  /\ st' = StOf(idAt(k - 2))
  /\ end' = EndOf(idAt(k - 2))
  /\ write_threads' = [write_threads EXCEPT ![ithread] = k - 2]
  /\ wjobs' = wjobs \cup
       {[tid |-> k - 2, slot |-> ithread, id |-> idAt(k - 2),
         st |-> StOf(idAt(k - 2)), end |-> EndOf(idAt(k - 2)), pos |-> k - 2]}
  /\ trace' = Append(trace,
       [k |-> k, stage |-> "egest", pos |-> k - 2, id |-> idAt(k - 2),
        gen |-> GenOf(k - 2), rows |-> 0 .. (EndOf(idAt(k - 2)) - StOf(idAt(k - 2)) - 1)])
  /\ pc' = "sync1"
  /\ UNCHANGED <<cfgVars, tryVars, bpVars, k, ids, ithread, t, data_queue, bufVars, streamVars,
                 wdone, readVars, synced>>

\* variant: the transfer-in stream is not waited for
Sync1NoWait ==
  /\ pc = "sync1"
  /\ synced' = [synced EXCEPT ![1] = Completed(stream1, "copyin")]
  /\ pc' = "sync2"
  /\ UNCHANGED <<cfgVars, tryVars, bpVars, k, ids, ithread, st, end, t, data_queue, bufVars,
                 streamVars, writeVars, readVars, trace>>

\* line 199: self.stream1.synchronize()
Sync1 ==
  /\ pc = "sync1"
  /\ stream1 = <<>>
  /\ synced' = [synced EXCEPT ![1] = Completed(stream1, "copyin")]
  /\ pc' = "sync2"
  /\ UNCHANGED <<cfgVars, tryVars, bpVars, k, ids, ithread, st, end, t, data_queue, bufVars,
                 streamVars, writeVars, readVars, trace>>

\* variant: the compute stream is not waited for
Sync2NoWait ==
  /\ pc = "sync2"
  /\ synced' = [synced EXCEPT ![2] = Completed(stream2, "compute")]
  /\ k' = k + 1
  /\ pc' = IF LoopContinues(k + 1) THEN "rec" ELSE "join"
  /\ UNCHANGED <<cfgVars, tryVars, bpVars, ids, ithread, st, end, t, data_queue, bufVars,
                 streamVars, writeVars, readVars, trace>>

\* line 200: self.stream2.synchronize(), then the next iteration of the loop
Sync2 ==
  /\ pc = "sync2"
  /\ stream2 = <<>>
  /\ synced' = [synced EXCEPT ![2] = Completed(stream2, "compute")]
  /\ k' = k + 1
  /\ pc' = IF LoopContinues(k + 1) THEN "rec" ELSE "join"
  /\ UNCHANGED <<cfgVars, tryVars, bpVars, ids, ithread, st, end, t, data_queue, bufVars,
                 streamVars, writeVars, readVars, trace>>

\* variant: the loop over the write slots does not wait for their jobs
JoinWriteNoWait ==
  /\ pc = "join"
  /\ t \in WSlots
  /\ t' = t + 1
  /\ pc' = IF t + 1 \in WSlots THEN "join" ELSE "done"
  /\ UNCHANGED <<cfgVars, tryVars, bpVars, k, ids, ithread, st, end, data_queue, bufVars,
                 streamVars, writeVars, readVars, trace, synced>>

\* lines 202-203: for t in self.write_threads: t.join()
JoinWrite ==
  /\ pc = "join"
  /\ t \in WSlots
  /\ ~is_alive(write_threads, wjobs, t)
  /\ t' = t + 1
  /\ pc' = IF t + 1 \in WSlots THEN "join" ELSE "done"
  /\ UNCHANGED <<cfgVars, tryVars, bpVars, k, ids, ithread, st, end, data_queue, bufVars,
                 streamVars, writeVars, readVars, trace, synced>>

\* ------------------------------------------------------- device streams
\* completion of the oldest pending cpu->gpu copy
Stream1Run ==
  /\ stream1 # <<>>
  /\ LET o == Head(stream1)
     IN item_gpu' = [item_gpu EXCEPT ![o.name][o.gen] =
          [r \in Rows |-> IF r \in o.rows THEN item_pinned[o.name][o.gen][r] ELSE @[r]]]
  /\ stream1' = Tail(stream1)
  /\ UNCHANGED <<cfgVars, tryVars, bpVars, schedVars, data_queue, item_pinned, rec_gpu, rec_pinned,
                 stream2, stream3, writeVars, readVars, trace, synced>>

\* what the reconstruction of one row holds, given the rows of its three inputs
RecRow(d, dk, fl) == IF d = dk /\ dk = fl THEN d ELSE -2

\* completion of the pending reconstruction
Stream2Run ==
  /\ stream2 # <<>>
  /\ LET o == Head(stream2)
     IN rec_gpu' = [rec_gpu EXCEPT ![o.gen] =
          [r \in Rows |-> IF r \in o.rows
             THEN RecRow(item_gpu["data"][o.gen][r], item_gpu["dark"][o.gen][r],
                         item_gpu["flat"][o.gen][r])
             ELSE @[r]]]
  /\ stream2' = Tail(stream2)
  /\ UNCHANGED <<cfgVars, tryVars, bpVars, schedVars, data_queue, item_pinned, item_gpu, rec_pinned,
                 stream1, stream3, writeVars, readVars, trace, synced>>

\* completion of the pending gpu->cpu copy
Stream3Run ==
  /\ stream3 # <<>>
  /\ LET o == Head(stream3)
     IN rec_pinned' = [rec_pinned EXCEPT ![o.slot] =
          [r \in Rows |-> IF r \in o.rows THEN rec_gpu[o.gen][r] ELSE @[r]]]
  /\ stream3' = Tail(stream3)
  /\ UNCHANGED <<cfgVars, tryVars, bpVars, schedVars, data_queue, item_pinned, item_gpu, rec_gpu,
                 stream1, stream2, writeVars, readVars, trace, synced>>

\* ----------------------------------------------------------- write pool
\* a write_data_chunk job returns: it has written rows [st, end) from its landing area
WriteJobFinish ==
  /\ \E j \in wjobs :
       /\ wjobs' = wjobs \ {j}
       /\ wdone' = wdone \cup
            {[tid |-> j.tid, slot |-> j.slot, id |-> j.id, st |-> j.st, end |-> j.end,
              pos |-> j.pos, ok |-> TRUE,
              out |-> [r \in 0 .. (j.end - j.st - 1) |-> rec_pinned[j.slot][r]]]}
  /\ UNCHANGED <<cfgVars, tryVars, bpVars, schedVars, data_queue, bufVars, streamVars, write_threads,
                 readVars, trace, synced>>

\* a write_data_chunk job fails (I/O error): the failure stays inside its thread,
\* which ends without having written; nothing is handed back to the scheduler
WriteJobFail ==
  /\ \E j \in wjobs :
       /\ wjobs' = wjobs \ {j}
       /\ wdone' = wdone \cup
            {[tid |-> j.tid, slot |-> j.slot, id |-> j.id, st |-> j.st, end |-> j.end,
              pos |-> j.pos, ok |-> FALSE, out |-> <<>>]}
  /\ UNCHANGED <<cfgVars, tryVars, bpVars, schedVars, data_queue, bufVars, streamVars, write_threads,
                 readVars, trace, synced>>

\* SIGINT / SIGTERM during recon_all: the handler registered in __init__ ends the
\* run where it stands; recon_all has no except/finally, so none of its remaining
\* statements (dispatches, synchronizations, the join loop) is executed
Interrupt ==
  /\ pc \notin {"done", "aborted"}
  /\ pc' = "aborted"
  /\ UNCHANGED <<cfgVars, tryVars, bpVars, k, ids, ithread, st, end, t, data_queue, bufVars, streamVars,
                 writeVars, readVars, trace, synced>>

\* ---------------------------------------------------------- reader side
\* read_data_to_queue: hand the next chunk to a free read slot
ReadDispatch ==
  /\ read_next < nzchunk
  /\ FreeSlots(read_threads, rjobs, RSlots) # {}
  /\ LET s == find_free_thread(read_threads, rjobs, RSlots)
     IN /\ read_threads' = [read_threads EXCEPT ![s] = read_next]
        /\ rjobs' = rjobs \cup {[tid |-> read_next, slot |-> s, id |-> read_next]}
  /\ read_next' = read_next + 1
  /\ UNCHANGED <<cfgVars, tryVars, bpVars, schedVars, data_queue, bufVars, streamVars, writeVars,
                 enqueued, trace, synced>>

\* a read job has its chunk and puts the item into the queue (blocks while it is full)
ReadJobPut ==
  /\ \E j \in rjobs :
       /\ ~QueueFull(data_queue)
       /\ data_queue' = Append(data_queue, j.id)
       /\ enqueued' = Append(enqueued, j.id)
       /\ rjobs' = rjobs \ {j}
  /\ UNCHANGED <<cfgVars, tryVars, bpVars, schedVars, bufVars, streamVars, writeVars,
                 read_next, read_threads, trace, synced>>

\* --------------------------------------------------------- specification
Scheduler ==
  \/ Reconstruct
  \/ FindFreeThread
  \/ CopyOut
  \/ Ingest
  \/ Sync3
  \/ Dispatch
  \/ Sync1
  \/ Sync2
  \/ JoinWrite

Next ==
  \/ Reconstruct
  \/ FindFreeThread
  \/ CopyOut
  \/ Ingest
  \/ Sync3
  \/ Dispatch
  \/ Sync1
  \/ Sync2
  \/ JoinWrite
  \/ Stream1Run
  \/ Stream2Run
  \/ Stream3Run
  \/ WriteJobFinish
  \/ ReadDispatch
  \/ ReadJobPut

Spec == Init /\ [][Next]_vars

\* the run under fair scheduling: while any thread, stream or job can take a step,
\* one of them eventually does (the weakest fairness; it is implied by fairness of
\* each thread, stream and job taken separately)
FairSpec == Spec /\ WF_vars(Next)

\* the run with an interrupt signal that may arrive at any point
IntNext ==
  \/ Next
  \/ Interrupt

IntSpec == Init /\ [][IntNext]_vars

\* the run with write jobs that may fail
FailNext ==
  \/ Next
  \/ WriteJobFail

FailSpec == Init /\ [][FailNext]_vars

\* the run of BigInit, and the same under fair scheduling
BigSpec == BigInit /\ [][Next]_vars

BigFairSpec == BigSpec /\ WF_vars(Next)

\* ------------------------------------------------- scheduler: recon_try
\* numbers of candidate shifts of the runs: one, a full chunk, a chunk and one more
ShiftCounts == {1, ncz, ncz + 1}

\* params.id_slices of the runs
SliceLists == {<<4>>, <<4, 7>>}

\* rotation centre the candidate shifts are added to
Centers == {10}

\* params.nschunk and params.lschunk for ns candidate shifts
NsChunkOf(ns) == (ns + ncz - 1) \div ncz
LsChunkOf(ns) ==
  [i \in 0 .. (NsChunkOf(ns) - 1) |-> IF (i + 1) * ncz <= ns THEN ncz ELSE ns - i * ncz]

\* params.shift_array and params.save_centers for ns candidate shifts around centre c
ShiftArrayOf(ns) == [i \in 0 .. (ns - 1) |-> i - (ns \div 2)]
SaveCentersOf(ns, c) == [i \in 0 .. (ns - 1) |-> c + ShiftArrayOf(ns)[i]]

nschunk == params.nschunk
lschunk == params.lschunk

\* a row of np.zeros / cp.zeros: no slice reconstructed into it
ZeroRow == [slice |-> Empty, sht |-> 0]

\* index into shift_array / save_centers of row r of chunk slot j
CenterIndexFlat(j, r) == j + r
CenterIndex(j, r) == j * ncz + r

\* cp.pad(shift_array[j*ncz : j*ncz + lschunk[j]], [0, ncz - lschunk[j]])
Sht(j) ==
  [r \in Rows |-> IF r < lschunk[j] THEN params.shift_array[CenterIndex(j, r)] ELSE 0]

\* for kk in range(lschunk[k-2])
WriteLoopContinues(j, n) == n < lschunk[j]

TryInit ==
  /\ \E ns \in ShiftCounts, c \in Centers, sl \in SliceLists :
       params = [nzchunk |-> 0, lzchunk |-> <<>>, ncz |-> ncz,
                 nschunk |-> NsChunkOf(ns), lschunk |-> LsChunkOf(ns),
                 shift_array |-> ShiftArrayOf(ns), save_centers |-> SaveCentersOf(ns, c),
                 id_slices |-> sl]
  /\ \E w \in 1 .. MaxWrite, ra \in RowArgs :
       args = [max_write_threads |-> w, max_read_threads |-> 1,
               start_row |-> ra[1], binning |-> ra[2]]
  /\ pc = "t_read"
  /\ k = 0
  /\ ids = <<>>
  /\ ithread = 0
  /\ st = 0
  /\ end = 0
  /\ t = 0
  /\ data_queue = <<>>
  /\ item_pinned = [nm \in Names |-> [g \in Gens |-> [r \in Rows |-> Empty]]]
  /\ item_gpu = [nm \in Names |-> [g \in Gens |-> [r \in Rows |-> Empty]]]
  /\ rec_gpu = [g \in Gens |-> [r \in Rows |-> ZeroRow]]
  /\ rec_pinned = [ws \in 0 .. (args.max_write_threads - 1) |-> [r \in Rows |-> ZeroRow]]
  /\ stream1 = <<>>
  /\ stream2 = <<>>
  /\ stream3 = <<>>
  /\ write_threads = [ws \in 0 .. (args.max_write_threads - 1) |-> Empty]
  /\ wjobs = {}
  /\ wdone = {}
  /\ read_next = 0
  /\ read_threads = [rs \in 0 .. (args.max_read_threads - 1) |-> Empty]
  /\ rjobs = {}
  /\ enqueued = <<>>
  /\ trace = <<>>
  /\ synced = [s \in 1 .. 3 |-> {}]
  /\ islice = 0
  /\ kk = 0
  /\ data = Empty
  /\ BpIdle

\* lines 208-234: the next slice is read and preprocessed, rec_pinned and rec_gpu are
\* allocated anew; a job still running keeps the landing row of the old rec_pinned
TryRead ==
  /\ pc = "t_read"
  /\ IF islice < Len(params.id_slices)
       THEN /\ data' = params.id_slices[islice + 1]
            /\ rec_gpu' = [g \in Gens |-> [r \in Rows |-> ZeroRow]]
            /\ rec_pinned' = [ws \in WSlots |-> [r \in Rows |-> ZeroRow]]
            /\ wjobs' = {[j EXCEPT !.frozen = TRUE,
                                   !.val = IF j.frozen THEN @ ELSE rec_pinned[j.slot][j.row]] :
                           j \in wjobs}
            /\ k' = 0
            /\ pc' = "t_rec"
       ELSE /\ pc' = "t_done"
            /\ UNCHANGED <<data, rec_gpu, rec_pinned, wjobs, k>>
  /\ UNCHANGED <<cfgVars, bpVars, ids, ithread, st, end, t, data_queue, item_pinned, item_gpu,
                 streamVars, write_threads, wdone, readVars, trace, synced, islice, kk>>

\* lines 239-248: reconstruction of chunk slot k-1 on stream2
TryReconstruct ==
  /\ pc = "t_rec"
  /\ IF k > 0 /\ k < nschunk + 1
       THEN /\ stream2' = Append(stream2,
                 [op |-> "rec", name |-> "rec", gen |-> (k - 1) % 2, pos |-> k - 1,
                  slot |-> Empty, rows |-> Rows, slice |-> data, sht |-> Sht(k - 1)])
            /\ trace' = Append(trace,
                 [k |-> k, stage |-> "compute", pos |-> k - 1, gen |-> (k - 1) % 2,
                  islice |-> islice, kk |-> Empty, center |-> Empty, slot |-> Empty])
       ELSE UNCHANGED <<stream2, trace>>
  /\ pc' = IF k > 1 THEN "t_find" ELSE "t_sync3"
  /\ UNCHANGED <<cfgVars, bpVars, tryVars, k, ids, ithread, st, end, t, data_queue, bufVars,
                 stream1, stream3, writeVars, readVars, synced>>

\* line 252: ithread = utils.find_free_thread(self.write_threads)
TryFindFreeThread ==
  /\ pc = "t_find"
  /\ FreeSlots(write_threads, wjobs, WSlots) # {}
  /\ ithread' = find_free_thread(write_threads, wjobs, WSlots)
  /\ pc' = "t_copy"
  /\ UNCHANGED <<cfgVars, bpVars, tryVars, k, ids, st, end, t, data_queue, bufVars, streamVars,
                 writeVars, readVars, trace, synced>>

\* line 253: rec_gpu[(k-2) % 2].get(out=rec_pinned[ithread]) on stream3
TryCopyOut ==
  /\ pc = "t_copy"
  /\ stream3' = Append(stream3,
       [op |-> "d2h", name |-> "rec", gen |-> (k - 2) % 2, pos |-> k - 2,
        slot |-> ithread, rows |-> Rows])
  /\ trace' = Append(trace,
       [k |-> k, stage |-> "copyout", pos |-> k - 2, gen |-> (k - 2) % 2,
        islice |-> islice, kk |-> Empty, center |-> Empty, slot |-> ithread])
  /\ pc' = "t_sync3"
  /\ UNCHANGED <<cfgVars, bpVars, tryVars, k, ids, ithread, st, end, t, data_queue, bufVars,
                 stream1, stream2, writeVars, readVars, synced>>

\* line 254: self.stream3.synchronize(), then the head of the write loop
TrySync3 ==
  /\ pc = "t_sync3"
  /\ stream3 = <<>>
  /\ kk' = 0
  /\ pc' = IF k > 1 /\ WriteLoopContinues(k - 2, 0) THEN "t_run" ELSE "t_sync1"
  /\ UNCHANGED <<cfgVars, bpVars, islice, data, k, ids, ithread, st, end, t, data_queue,
                 bufVars, streamVars, writeVars, readVars, trace, synced>>

\* lines 257-259: one pass of the write loop: write_threads[ithread].run(write_data_try,
\* (rec_pinned[ithread, kk], save_centers[(k-2)*ncz+kk], id_slice)). run() starts a
\* new thread on the slot whether or not the slot's previous thread has ended.
TryDispatch ==
  /\ pc = "t_run"
  /\ LET tid == Cardinality(wjobs) + Cardinality(wdone)
         ctr == params.save_centers[CenterIndex(k - 2, kk)]
     IN /\ write_threads' = [write_threads EXCEPT ![ithread] = tid]
        /\ wjobs' = wjobs \cup
             {[tid |-> tid, slot |-> ithread, row |-> kk, center |-> ctr,
               id_slice |-> params.id_slices[islice + 1], islice |-> islice,
               pos |-> k - 2, frozen |-> FALSE, val |-> ZeroRow]}
        /\ trace' = Append(trace,
             [k |-> k, stage |-> "egest", pos |-> k - 2, gen |-> (k - 2) % 2,
              islice |-> islice, kk |-> kk, center |-> ctr, slot |-> ithread])
  /\ kk' = kk + 1
  /\ pc' = IF WriteLoopContinues(k - 2, kk + 1) THEN "t_run" ELSE "t_sync1"
  /\ UNCHANGED <<cfgVars, bpVars, islice, data, k, ids, ithread, st, end, t, data_queue,
                 bufVars, streamVars, wdone, readVars, synced>>

\* line 261: self.stream1.synchronize()
TrySync1 ==
  /\ pc = "t_sync1"
  /\ stream1 = <<>>
  /\ pc' = "t_sync2"
  /\ UNCHANGED <<cfgVars, bpVars, tryVars, k, ids, ithread, st, end, t, data_queue, bufVars,
                 streamVars, writeVars, readVars, trace, synced>>

\* line 262: self.stream2.synchronize(), then the next iteration of the loop
TrySync2 ==
  /\ pc = "t_sync2"
  /\ stream2 = <<>>
  /\ k' = k + 1
  /\ t' = 0
  /\ pc' = IF k + 1 < nschunk + 2 THEN "t_rec" ELSE "t_join"
  /\ UNCHANGED <<cfgVars, bpVars, tryVars, ids, ithread, st, end, data_queue, bufVars,
                 streamVars, writeVars, readVars, trace, synced>>

\* lines 264-265: for t in self.write_threads: t.join(), then the next slice
TryJoin ==
  /\ pc = "t_join"
  /\ t \in WSlots
  /\ ~is_alive(write_threads, wjobs, t)
  /\ t' = t + 1
  /\ IF t + 1 \in WSlots
       THEN UNCHANGED <<pc, islice>>
       ELSE /\ pc' = "t_read"
            /\ islice' = islice + 1
  /\ UNCHANGED <<cfgVars, bpVars, kk, data, k, ids, ithread, st, end, data_queue, bufVars,
                 streamVars, writeVars, readVars, trace, synced>>

\* completion of the pending reconstruction: row r holds the slice filtered with sht[r]
TryStream2Run ==
  /\ stream2 # <<>>
  /\ LET o == Head(stream2)
     IN rec_gpu' = [rec_gpu EXCEPT ![o.gen] =
          [r \in Rows |-> [slice |-> o.slice, sht |-> o.sht[r]]]]
  /\ stream2' = Tail(stream2)
  /\ UNCHANGED <<cfgVars, bpVars, tryVars, schedVars, data_queue, item_pinned, item_gpu,
                 rec_pinned, stream1, stream3, writeVars, readVars, trace, synced>>

\* completion of the pending gpu->cpu copy
TryStream3Run ==
  /\ stream3 # <<>>
  /\ LET o == Head(stream3)
     IN rec_pinned' = [rec_pinned EXCEPT ![o.slot] = rec_gpu[o.gen]]
  /\ stream3' = Tail(stream3)
  /\ UNCHANGED <<cfgVars, bpVars, tryVars, schedVars, data_queue, item_pinned, item_gpu,
                 rec_gpu, stream1, stream2, writeVars, readVars, trace, synced>>

\* a write_data_try job returns: it has written its landing row under its centre
TryJobFinish ==
  /\ \E j \in wjobs :
       /\ wjobs' = wjobs \ {j}
       /\ wdone' = wdone \cup
            {[tid |-> j.tid, slot |-> j.slot, row |-> j.row, center |-> j.center,
              id_slice |-> j.id_slice, islice |-> j.islice, pos |-> j.pos, ok |-> TRUE,
              out |-> IF j.frozen THEN j.val ELSE rec_pinned[j.slot][j.row]]}
  /\ UNCHANGED <<cfgVars, bpVars, tryVars, schedVars, data_queue, bufVars, streamVars,
                 write_threads, readVars, trace, synced>>

TryNext ==
  \/ TryRead
  \/ TryReconstruct
  \/ TryFindFreeThread
  \/ TryCopyOut
  \/ TrySync3
  \/ TryDispatch
  \/ TrySync1
  \/ TrySync2
  \/ TryJoin
  \/ TryStream2Run
  \/ TryStream3Run
  \/ TryJobFinish

TrySpec == TryInit /\ [][TryNext]_vars

\* ------------------------------------------- FourierRec.backprojection
\* index set of an array of shape (d0, d1, d2)
Idx(d0, d1, d2) == (0 .. (d0 - 1)) \X (0 .. (d1 - 1)) \X (0 .. (d2 - 1))

\* the elements of an array of shape (d0, d1, d2) in C order
Ravel(v, d0, d1, d2) ==
  [l \in 0 .. (d0 * d1 * d2 - 1) |-> v[<<l \div (d1 * d2), (l \div d2) % d1, l % d2>>]]

\* a C-ordered buffer seen as an array of shape (d0, d1, d2)
Reshape(f, d0, d1, d2) ==
  [i \in Idx(d0, d1, d2) |-> f[(i[1] * d1 + i[2]) * d2 + i[3]]]

\* concatenate((v[:nz//2, :, :, newaxis], v[nz//2:, :, :, newaxis]), axis=3)
\* .reshape(v.shape) for v of shape (nz, a, b)
Interleave(v, nz, a, b) ==
  LET h == nz \div 2
      cat == [i \in (0 .. (h - 1)) \X (0 .. (a - 1)) \X (0 .. (b - 1)) \X (0 .. 1) |->
                v[<<i[4] * h + i[1], i[2], i[3]>>]]
      flat == [l \in 0 .. (nz * a * b - 1) |->
                 cat[<<l \div (a * b * 2), (l \div (b * 2)) % a, (l \div 2) % b, l % 2>>]]
  IN  Reshape(flat, nz, a, b)

\* objc = obj.reshape(nz//2, n, 2*n); concatenate((objc[:, :, ::2], objc[:, :, 1::2]))
\* for obj of shape (nz, n, n)
DeinterleaveSwapped(obj, nz, n) ==
  LET h == nz \div 2
      objc == Reshape(Ravel(obj, nz, n, n), h, n, 2 * n)
  IN  [i \in Idx(nz, n, n) |->
         IF i[1] < h THEN objc[<<i[1], i[2], 2 * i[3] + 1>>]
                     ELSE objc[<<i[1] - h, i[2], 2 * i[3]>>]]
Deinterleave(obj, nz, n) ==
  LET h == nz \div 2
      objc == Reshape(Ravel(obj, nz, n, n), h, n, 2 * n)
  IN  [i \in Idx(nz, n, n) |->
         IF i[1] < h THEN objc[<<i[1], i[2], 2 * i[3]>>]
                     ELSE objc[<<i[1] - h, i[2], 2 * i[3] + 1>>]]

\* volumes of shape (nz, n, n): zero except for a mark 1 at p and a mark 2 at q.
\* Both transforms only move elements, so a wrong move of any element shows on one
\* of these volumes.
Volumes(nz, n) ==
  {[c \in Idx(nz, n, n) |-> IF c = p THEN 1 ELSE IF c = q THEN 2 ELSE 0] :
     p \in Idx(nz, n, n), q \in Idx(nz, n, n)}

\* the layout transforms of backprojection applied one after the other to a volume
\* of even height nz
LayoutInit ==
  /\ \E ra \in RowArgs : InitWith(0, 1, 1, 1, ra)
  /\ TryIdle
  /\ \E h \in 1 .. HalfNcz, n \in 1 .. MaxN :
       /\ bp_nz = 2 * h
       /\ bp_n = n
       /\ bp_vol \in Volumes(2 * h, n)
  /\ bp_pc = "interleave"
  /\ bp_data = bp_vol
  /\ bp_obj = <<>>

\* lines 71-72: data is replaced by its interleaved copy
BpInterleave ==
  /\ bp_pc = "interleave"
  /\ bp_data' = Interleave(bp_data, bp_nz, bp_n, bp_n)
  /\ bp_pc' = "deinterleave"
  /\ UNCHANGED <<cfgVars, schedVars, data_queue, bufVars, streamVars, writeVars, readVars,
                 trace, synced, tryVars, bp_nz, bp_n, bp_vol, bp_obj>>

\* lines 74 and 76 applied to the buffer the input transform produced
BpDeinterleave ==
  /\ bp_pc = "deinterleave"
  /\ bp_obj' = Deinterleave(bp_data, bp_nz, bp_n)
  /\ bp_pc' = "done"
  /\ UNCHANGED <<cfgVars, schedVars, data_queue, bufVars, streamVars, writeVars, readVars,
                 trace, synced, tryVars, bp_nz, bp_n, bp_vol, bp_data>>

LayoutNext ==
  \/ BpInterleave
  \/ BpDeinterleave

LayoutSpec == LayoutInit /\ [][LayoutNext]_vars

\* ------------------------------------------------------------ properties
EventsOf(stage) == SelectSeq(trace, LAMBDA e : e.stage = stage)

\* how often chunk id c appears among the events of a stage
TimesIn(stage, c) ==
  Cardinality({i \in 1 .. Len(EventsOf(stage)) : EventsOf(stage)[i].id = c})

ChunkIds == 0 .. (nzchunk - 1)

\* the events of iteration ki, as (stage, position) pairs
Fired(ki) ==
  {<<trace[i].stage, trace[i].pos>> :
     i \in {n \in 1 .. Len(trace) :
              trace[n].k = ki /\ trace[n].stage \in {"ingest", "compute", "egest"}}}

Expected(ki) ==
  (IF ki < nzchunk THEN {<<"ingest", ki>>} ELSE {})
    \cup (IF 1 <= ki /\ ki <= nzchunk THEN {<<"compute", ki - 1>>} ELSE {})
    \cup (IF ki >= 2 THEN {<<"egest", ki - 2>>} ELSE {})

StreamOps(stream) == {stream[i] : i \in 1 .. Len(stream)}

\* position at which chunk id c was pulled from the queue
PosOf(c) == CHOOSE j \in 0 .. (Len(ids) - 1) : idAt(j) = c

\* C1: when recon_all has returned, exactly nzchunk reconstructions were issued and
\* exactly nzchunk write jobs were dispatched, and every chunk id 0..nzchunk-1 appears
\* exactly once among the reconstructions and exactly once among the dispatches; at
\* no earlier moment does an id appear twice in either.
C1_ExactlyOnce ==
  /\ \A stage \in {"compute", "egest"} :
       /\ \A c \in ChunkIds : TimesIn(stage, c) <= 1
       /\ \A i \in 1 .. Len(EventsOf(stage)) : EventsOf(stage)[i].id \in ChunkIds
  /\ pc = "done" =>
       /\ Len(EventsOf("compute")) = nzchunk
       /\ Len(EventsOf("egest")) = nzchunk
       /\ Cardinality(wjobs \cup {[tid |-> j.tid, slot |-> j.slot, id |-> j.id,
                                   st |-> j.st, end |-> j.end, pos |-> j.pos] : j \in wdone})
            = nzchunk
       /\ \A c \in ChunkIds : TimesIn("compute", c) = 1 /\ TimesIn("egest", c) = 1

C1_Witness ==
  /\ pc = "done"
  /\ nzchunk >= 2
  /\ Len(EventsOf("egest")) = nzchunk

\* C2: the reconstruction of the chunk at position j is issued, and reads input
\* generation j mod 2, only after the cpu->gpu copy of position j was synchronized on
\* stream1; its gpu->cpu copy is issued, and reads reconstruction generation j mod 2,
\* only after its reconstruction was synchronized on stream2; its write job is
\* started only after its gpu->cpu copy was synchronized on stream3. Positions count
\* the chunks in the order they were pulled from the queue.
C2_SyncBeforeUse ==
  /\ \A i \in 1 .. Len(trace) :
       /\ trace[i].stage = "compute" =>
            trace[i].pos \in synced[1] /\ trace[i].gen = trace[i].pos % 2
       /\ trace[i].stage = "copyout" =>
            trace[i].pos \in synced[2] /\ trace[i].gen = trace[i].pos % 2
       /\ trace[i].stage = "egest" => trace[i].pos \in synced[3]
  /\ \A j \in wjobs : j.pos \in synced[3]
  /\ \A j \in wdone : j.pos \in synced[3]
  /\ \A n \in 1 .. 3 : \A q \in synced[n] :
       /\ n = 1 => \A o \in StreamOps(stream1) : o.pos # q
       /\ n = 2 => \A o \in StreamOps(stream2) : o.pos # q
       /\ n = 3 => \A o \in StreamOps(stream3) : o.pos # q

C2_Witness ==
  /\ \E j \in wjobs : j.pos = 1
  /\ stream2 # <<>>
  /\ stream3 = <<>>

\* C3 as stated: at every stage entry the generation equals the chunk id modulo 2.
C3_ParityByChunkId ==
  \A i \in 1 .. Len(trace) : trace[i].gen = trace[i].id % 2

\* contents a buffer row may hold if its generation g only ever served positions of
\* parity g: nothing yet, or rows of a chunk that was pulled at such a position
RowOfParity(v, g) == v = Empty \/ (v \in StreamOps(ids) /\ PosOf(v) % 2 = g)

\* C3 (amended): the chunk pulled from the queue at iteration j (its position; ids[j]
\* is its id) uses generation j mod 2 in every stage: pinned staging, cpu->gpu copy,
\* reconstruction input and output, gpu->cpu copy. Every row a generation-g buffer
\* holds belongs to a chunk of position parity g. When a single read thread delivers
\* the chunks in id order, this is also the chunk id modulo 2.
C3_ParityByPosition ==
  /\ \A i \in 1 .. Len(trace) :
       /\ trace[i].gen = trace[i].pos % 2
       /\ trace[i].id = idAt(trace[i].pos)
       /\ args.max_read_threads = 1 => trace[i].gen = trace[i].id % 2
  /\ \A o \in StreamOps(stream1) \cup StreamOps(stream2) \cup StreamOps(stream3) :
       o.gen = o.pos % 2
  /\ \A g \in Gens : \A r \in Rows :
       /\ \A nm \in Names :
            RowOfParity(item_pinned[nm][g][r], g) /\ RowOfParity(item_gpu[nm][g][r], g)
       /\ RowOfParity(rec_gpu[g][r], g)

C3_Witness ==
  \E i \in 1 .. Len(trace) :
    /\ trace[i].stage = "copyout"
    /\ trace[i].id % 2 # trace[i].gen
    /\ rec_gpu[trace[i].gen][0] = trace[i].id

\* C4: the loop runs iterations 0..nzchunk+1; every finished iteration ki fired exactly
\* ingest(ki) iff ki < nzchunk, compute(ki-1) iff 1 <= ki <= nzchunk, egest(ki-2) iff
\* ki >= 2, each once, and the running iteration fired nothing else. For nzchunk = 3
\* the table is ingest(0) / ingest(1) compute(0) / ingest(2) compute(1) egest(0) /
\* compute(2) egest(1) / egest(2); for nzchunk = 0 no stage fires and nothing is
\* pulled from the queue.
C4_FiringPattern ==
  /\ k <= nzchunk + 2
  /\ pc \in {"join", "done"} <=> k = nzchunk + 2
  /\ \A ki \in 0 .. (k - 1) : Fired(ki) = Expected(ki)
  /\ Fired(k) \subseteq Expected(k)
  /\ Len(EventsOf("ingest")) + Len(EventsOf("compute")) + Len(EventsOf("egest"))
       = Cardinality(UNION {Fired(ki) : ki \in 0 .. k})
  /\ (nzchunk = 3 /\ pc = "done") =>
       /\ Fired(0) = {<<"ingest", 0>>}
       /\ Fired(1) = {<<"ingest", 1>>, <<"compute", 0>>}
       /\ Fired(2) = {<<"ingest", 2>>, <<"compute", 1>>, <<"egest", 0>>}
       /\ Fired(3) = {<<"compute", 2>>, <<"egest", 1>>}
       /\ Fired(4) = {<<"egest", 2>>}
  /\ nzchunk = 0 => trace = <<>> /\ ids = <<>> /\ wjobs = {} /\ wdone = {}

C4_Witness ==
  /\ nzchunk = 3
  /\ pc = "done"
  /\ k = 5
  /\ Fired(2) = {<<"ingest", 2>>, <<"compute", 1>>, <<"egest", 0>>}

\* C5: a generation of a buffer array is never used by two stages at once. While a
\* cpu->gpu copy into generation g of the inputs is pending, no reconstruction reading
\* generation g is pending; while a reconstruction writing generation g of rec_gpu is
\* pending, no gpu->cpu copy reading generation g is pending; ingest starts staging
\* and copying into generation k mod 2 only when no pending cpu->gpu copy still reads
\* that pinned generation and no pending reconstruction reads that device generation;
\* a reconstruction is issued into generation (k-1) mod 2 only when no pending
\* gpu->cpu copy reads it. No stream ever holds operations of two chunks.
C5_OneOwnerPerGeneration ==
  /\ \A o1 \in StreamOps(stream1) : \A o2 \in StreamOps(stream2) : o1.gen # o2.gen
  /\ \A o2 \in StreamOps(stream2) : \A o3 \in StreamOps(stream3) : o2.gen # o3.gen
  /\ (pc = "ingest" /\ k < nzchunk) =>
       /\ \A o \in StreamOps(stream1) : o.gen # k % 2
       /\ \A o \in StreamOps(stream2) : o.gen # k % 2
  /\ (pc = "rec" /\ k > 0 /\ k < nzchunk + 1) =>
       /\ \A o \in StreamOps(stream3) : o.gen # (k - 1) % 2
       /\ \A o \in StreamOps(stream1) : o.gen # (k - 1) % 2
  /\ \A o, q \in StreamOps(stream1) : o.pos = q.pos
  /\ Len(stream2) <= 1
  /\ Len(stream3) <= 1

C5_Witness ==
  /\ stream1 # <<>>
  /\ stream2 # <<>>
  /\ stream3 # <<>>
  /\ Head(stream1).gen = Head(stream3).gen

\* C6: when recon_all has returned, every write job dispatched during the run has
\* finished: no job is running, no slot is alive, and the finished jobs are exactly
\* the dispatched ones.
C6_NoPendingWriteAtReturn ==
  pc = "done" =>
    /\ wjobs = {}
    /\ \A s \in WSlots : ~is_alive(write_threads, wjobs, s)
    /\ {j.pos : j \in wdone} = IssuedOn("egest")
    /\ Cardinality(wdone) = Len(EventsOf("egest"))

C6_Witness ==
  /\ pc = "done"
  /\ Cardinality(wdone) >= 2
  /\ args.max_write_threads >= 2
  /\ \A s \in WSlots : write_threads[s] # Empty

AllWriteSlotsBusy == FreeSlots(write_threads, wjobs, WSlots) = {}

\* C7: with W = args.max_write_threads write slots, at most W write jobs run at any
\* moment and every running job is the current thread of its own slot; the pool keeps
\* exactly W slots; and while all W slots are busy the scheduler stays at its request
\* for a free slot: it neither picks a slot nor moves on until a job has finished.
C7_PoolSaturation ==
  /\ [](/\ Cardinality(wjobs) <= args.max_write_threads
        /\ \A j \in wjobs : j.slot \in WSlots /\ write_threads[j.slot] = j.tid
        /\ \A i, j \in wjobs : i.slot = j.slot => i = j
        /\ DOMAIN write_threads = WSlots
        /\ DOMAIN rec_pinned = WSlots)
  /\ [][(pc = "find" /\ AllWriteSlotsBusy)
          => (pc' = "find" /\ UNCHANGED <<k, ithread, stream3, trace>>)]_vars
  /\ [][(pc = "find" /\ pc' # "find")
          => (~AllWriteSlotsBusy /\ ~is_alive(write_threads, wjobs, ithread'))]_vars

C7_Witness ==
  /\ pc = "find"
  /\ AllWriteSlotsBusy
  /\ Cardinality(wjobs) = args.max_write_threads
  /\ args.max_write_threads = 2

\* C8 as stated: no operation of any stage touches a row at or beyond the valid row
\* count of its chunk.
C8_StaleRowsNeverRead ==
  \A o \in StreamOps(stream1) \cup StreamOps(stream2) \cup StreamOps(stream3) :
    \A r \in o.rows : r < lzchunk[idAt(o.pos)]

\* C8 (amended): for a chunk with lzchunk[id] valid rows, ingest fills only the first
\* lzchunk[id] rows of its generation's pinned staging buffers, and the row range
\* [st, end) handed to its write job has exactly lzchunk[id] rows; the cpu->gpu copy,
\* the reconstruction and the gpu->cpu copy each work on all ncz rows of the
\* generation, the stale ones included.
C8_ValidRowsStagedAndWritten ==
  /\ \A i \in 1 .. Len(trace) :
       /\ trace[i].stage = "ingest" => trace[i].rows = 0 .. (lzchunk[trace[i].id] - 1)
       /\ trace[i].stage = "egest" => trace[i].rows = 0 .. (lzchunk[trace[i].id] - 1)
       /\ trace[i].stage \in {"copyin", "compute", "copyout"} =>
            trace[i].rows = 0 .. (ncz - 1)
  /\ \A j \in wjobs : j.end - j.st = lzchunk[j.id]
  /\ \A j \in wdone : j.end - j.st = lzchunk[j.id] /\ DOMAIN j.out = 0 .. (lzchunk[j.id] - 1)
  /\ \A o \in StreamOps(stream1) \cup StreamOps(stream2) \cup StreamOps(stream3) :
       o.rows = 0 .. (ncz - 1)
  /\ \A nm \in Names : \A g \in Gens : \A r \in Rows :
       item_pinned[nm][g][r] # Empty => r < lzchunk[item_pinned[nm][g][r]]

C8_Witness ==
  \E j \in wdone :
    /\ j.end - j.st < ncz
    /\ j.pos >= 2
    /\ rec_pinned[j.slot][ncz - 1] \notin {Empty, j.id}

\* C9: under fair scheduling of the scheduler, the streams, the write jobs and the
\* reader, recon_all returns: as long as it has not returned some step is possible,
\* and it eventually reaches its end.
C9_Terminates ==
  /\ [](pc # "done" => ENABLED Next)
  /\ <>(pc = "done")

C9_Witness ==
  /\ pc = "done"
  /\ nzchunk = 3
  /\ args.max_write_threads = 1
  /\ args.max_read_threads = 2
  /\ enqueued # <<0, 1, 2>>

\* C10 as stated: the item pulled at iteration k has id k.
C10_IngestInIdOrder ==
  \A i \in 1 .. Len(ids) : ids[i] = i - 1

\* C10 (amended): the scheduler pulls the items in the order they entered the queue
\* (FIFO), each id 0..nzchunk-1 at most once and, when the loop is over, exactly once;
\* the recorded ids are 0, 1, ... in id order whenever the items entered the queue in
\* id order, which is the case with a single read thread; with more read threads
\* the recorded ids may be any order in which the read jobs complete.
C10_IngestInArrivalOrder ==
  /\ Len(ids) <= Len(enqueued)
  /\ ids = SubSeq(enqueued, 1, Len(ids))
  /\ data_queue = SubSeq(enqueued, Len(ids) + 1, Len(enqueued))
  /\ \A i, j \in 1 .. Len(ids) : ids[i] = ids[j] => i = j
  /\ \A i \in 1 .. Len(ids) : ids[i] \in ChunkIds
  /\ pc \in {"join", "done"} => Len(ids) = nzchunk
  /\ args.max_read_threads = 1 => \A i \in 1 .. Len(ids) : ids[i] = i - 1

C10_Witness ==
  /\ Len(ids) = 3
  /\ ids[1] = 1
  /\ ids[3] = 0

\* chunk ids of the events of a stage, in the order the events happened
StageIdSeq(stage) == [i \in 1 .. Len(EventsOf(stage)) |-> EventsOf(stage)[i].id]

\* C11: reconstruction and write dispatch follow the order of ingest: the i-th
\* reconstruction issued and the i-th write job dispatched are those of the i-th chunk
\* pulled from the queue, so a chunk pulled earlier is reconstructed earlier and its
\* write job is dispatched earlier; a stage never runs ahead of the stage before it.
C11_StagesFollowIngestOrder ==
  /\ \A stage \in {"ingest", "compute", "copyout", "egest"} :
       /\ Len(EventsOf(stage)) <= Len(ids)
       /\ StageIdSeq(stage) = SubSeq(ids, 1, Len(EventsOf(stage)))
       /\ \A i \in 1 .. Len(EventsOf(stage)) : EventsOf(stage)[i].pos = i - 1
  /\ Len(EventsOf("egest")) <= Len(EventsOf("compute"))
  /\ Len(EventsOf("compute")) <= Len(EventsOf("ingest"))
  /\ \A j \in wjobs : j.id = ids[j.pos + 1]
  /\ \A j \in wdone : j.id = ids[j.pos + 1]

C11_Witness ==
  /\ \E a \in wdone : \E b \in wjobs : b.pos < a.pos /\ ids[b.pos + 1] > ids[a.pos + 1]
  /\ Len(EventsOf("egest")) = 3

\* C18: in every iteration k >= 2 the gpu->cpu copy of position k-2 is issued first,
\* then stream3 is synchronized, only then the write job of position k-2 is
\* dispatched, and only after that dispatch stream1 and stream2 are synchronized:
\* at the synchronization of stream3 the copy is issued and the job is not yet
\* dispatched; at the dispatch the copy is synchronized and this iteration's
\* cpu->gpu copy and reconstruction are not; at the synchronizations of stream1
\* and stream2 the job is dispatched.
C18_IterationOrder ==
  /\ (pc \in {"copy", "ingest", "sync3", "run", "sync1", "sync2"} /\ k >= 2) =>
       /\ pc = "copy" => (k - 2) \notin IssuedOn("copyout")
       /\ pc \in {"ingest", "sync3", "run", "sync1", "sync2"} =>
            (k - 2) \in IssuedOn("copyout")
       /\ pc \in {"copy", "ingest", "sync3"} =>
            (k - 2) \notin synced[3] /\ (k - 2) \notin IssuedOn("egest")
       /\ pc = "run" =>
            /\ (k - 2) \in synced[3]
            /\ stream3 = <<>>
            /\ (k - 2) \notin IssuedOn("egest")
            /\ k \notin synced[1]
            /\ (k - 1) \notin synced[2]
       /\ pc \in {"sync1", "sync2"} =>
            /\ (k - 2) \in IssuedOn("egest")
            /\ (k - 2) \in synced[3]
            /\ (k - 1) \notin synced[2]
       /\ pc = "sync1" => k \notin synced[1]
  /\ \A q \in synced[1] : q >= 2 => (q - 2) \in IssuedOn("egest")
  /\ \A q \in synced[2] : q >= 1 => (q - 1) \in IssuedOn("egest")
  /\ \A q \in IssuedOn("egest") : q \in synced[3] /\ q \in IssuedOn("copyout")

C18_Witness ==
  /\ pc = "run"
  /\ k = 3
  /\ stream1 = <<>>
  /\ stream2 # <<>>
  /\ wjobs # {}

\* C19: when an iteration of the loop starts, nothing issued earlier is pending on
\* stream1, stream2 or stream3; whatever is pending on a stream was issued in the
\* running iteration (the cpu->gpu copy of position k, the reconstruction of position
\* k-1, the gpu->cpu copy of position k-2); and the loop counter advances only when
\* all three streams are empty.
C19_StreamsDrainedEachIteration ==
  /\ pc = "rec" => stream1 = <<>> /\ stream2 = <<>> /\ stream3 = <<>>
  /\ pc \in {"join", "done"} => stream1 = <<>> /\ stream2 = <<>> /\ stream3 = <<>>
  /\ \A o \in StreamOps(stream1) : o.pos = k
  /\ \A o \in StreamOps(stream2) : o.pos = k - 1
  /\ \A o \in StreamOps(stream3) : o.pos = k - 2
  /\ \A q \in 0 .. (k - 1) :
       /\ q < nzchunk => q \in synced[1]
       /\ q - 1 \in IssuedOn("compute") => (q - 1) \in synced[2]
       /\ q - 2 \in IssuedOn("copyout") => (q - 2) \in synced[3]

C19_Witness ==
  /\ pc = "rec"
  /\ k = 3
  /\ synced[1] = {0, 1, 2}
  /\ synced[2] = {0, 1}
  /\ synced[3] = {0}
  /\ wjobs # {}

\* C20: every write job is given the id of the chunk whose reconstruction its landing
\* area holds, and the row range of that same id: st = id*ncz + start_row // 2^binning
\* and end = st + lzchunk[id]. While the job runs, and in what it has read when it
\* finishes, rows 0 .. lzchunk[id]-1 of the landing area are the reconstruction of
\* chunk id. This holds for every arrival order of the chunks.
C20_WriteAddressFollowsId ==
  /\ \A j \in wjobs :
       /\ j.st = j.id * ncz + (args.start_row \div (2 ^ args.binning))
       /\ j.end = j.st + lzchunk[j.id]
       /\ \A r \in 0 .. (lzchunk[j.id] - 1) : rec_pinned[j.slot][r] = j.id
  /\ \A j \in wdone :
       /\ j.st = j.id * ncz + (args.start_row \div (2 ^ args.binning))
       /\ j.end = j.st + lzchunk[j.id]
       /\ DOMAIN j.out = 0 .. (lzchunk[j.id] - 1)
       /\ \A r \in DOMAIN j.out : j.out[r] = j.id
  /\ \A i, j \in wjobs \cup {[tid |-> d.tid, slot |-> d.slot, id |-> d.id, st |-> d.st,
                              end |-> d.end, pos |-> d.pos] : d \in wdone} :
       i # j => (i.end <= j.st \/ j.end <= i.st)

C20_Witness ==
  /\ \E j \in wjobs : j.id # j.pos /\ j.st = j.id * ncz + 1 /\ rec_pinned[j.slot][0] = j.id
  /\ \E d \in wdone : d.id # d.pos /\ d.out[0] = d.id

\* C16: the queue never holds more than 32 items; a read job that finds it full keeps
\* its item and waits (no item is dropped: every chunk handed to a read job is either
\* still with its job, or in the queue, or pulled by the scheduler, exactly once), and
\* puts it once the scheduler has pulled an item; when the loop is over every item
\* that entered the queue has been pulled exactly once; and the run ends.
C16_BoundedQueueBackpressure ==
  /\ [](/\ Len(data_queue) <= 32
        /\ ids \o data_queue = enqueued
        /\ \A i, j \in 1 .. Len(enqueued) : enqueued[i] = enqueued[j] => i = j
        /\ {enqueued[i] : i \in 1 .. Len(enqueued)} \cup {j.id : j \in rjobs}
             = 0 .. (read_next - 1)
        /\ \A j \in rjobs : \A i \in 1 .. Len(enqueued) : enqueued[i] # j.id
        /\ pc \in {"join", "done"} =>
             data_queue = <<>> /\ Len(ids) = nzchunk /\ Len(enqueued) = nzchunk)
  /\ [][Len(data_queue) = 32 => (enqueued' = enqueued /\ Len(data_queue') <= 32)]_vars
  /\ [](Len(data_queue) = 32 /\ rjobs # {} => <>(Len(data_queue) < 32))
  /\ <>(pc = "done")

C16_Witness ==
  /\ Len(data_queue) = 32
  /\ rjobs # {}
  /\ read_next = 33
  /\ Len(enqueued) = 32
  /\ ids = <<>>

\* C14: once an interrupt has ended the run, every outstanding write job has been
\* joined and no device work is left pending on the compute stream.
C14_InterruptTeardown ==
  pc = "aborted" => (wjobs = {} /\ stream2 = <<>>)

\* C15: a run in which a write job failed does not return normally: it ends in an
\* error outcome (which names the chunk id and the stage).
C15_FailureReported ==
  pc = "done" => \A j \in wdone : j.ok

\* C12: interleaving a volume of even height as backprojection does on its input and
\* de-interleaving the result as it does on its output gives back the volume.
C12_LayoutRoundTrip ==
  /\ bp_pc = "deinterleave" =>
       \A i \in Idx(bp_nz \div 2, bp_n, bp_n), c \in {0, 1} :
         Ravel(bp_data, bp_nz, bp_n, bp_n)[((i[1] * bp_n + i[2]) * bp_n + i[3]) * 2 + c]
           = bp_vol[<<c * (bp_nz \div 2) + i[1], i[2], i[3]>>]
  /\ bp_pc = "done" => bp_obj = bp_vol

C12_Witness ==
  /\ bp_pc = "done"
  /\ bp_nz = 2
  /\ bp_n = 2
  /\ bp_data # bp_vol
  /\ bp_obj[<<1, 0, 1>>] = 1
  /\ bp_obj[<<0, 1, 0>>] = 2

\* the write dispatches recon_try has made for the slice of index s, as trace indices
TryEgests(s) ==
  {n \in 1 .. Len(trace) : trace[n].stage = "egest" /\ trace[n].islice = s}

\* C13: in recon_try every write dispatch of chunk slot j happens at iteration j + 2
\* from generation j mod 2, after the copy-out of that slot, and carries landing row
\* kk < lschunk[j] with center save_centers[j*ncz+kk]; no (slice, slot, row) is
\* dispatched twice; once the loop of a slice is over, slot j has had exactly
\* lschunk[j] dispatches and every candidate center has been handed out exactly once.
C13_TryFanOut ==
  /\ \A n \in 1 .. Len(trace) :
       trace[n].stage = "egest" =>
         LET e == trace[n]
         IN /\ e.pos \in 0 .. (nschunk - 1)
            /\ e.k = e.pos + 2
            /\ e.gen = e.pos % 2
            /\ e.kk \in 0 .. (lschunk[e.pos] - 1)
            /\ e.center = params.save_centers[e.pos * ncz + e.kk]
            /\ \A m \in 1 .. Len(trace) :
                 (/\ trace[m].stage = "egest"
                  /\ trace[m].islice = e.islice
                  /\ trace[m].pos = e.pos
                  /\ trace[m].kk = e.kk) => m = n
            /\ \E m \in 1 .. (n - 1) :
                 /\ trace[m].stage = "copyout"
                 /\ trace[m].islice = e.islice
                 /\ trace[m].pos = e.pos
                 /\ trace[m].gen = e.pos % 2
                 /\ trace[m].slot = e.slot
            /\ Cardinality({j \in wjobs \cup wdone :
                              /\ j.islice = e.islice
                              /\ j.id_slice = params.id_slices[e.islice + 1]
                              /\ j.pos = e.pos
                              /\ j.row = e.kk
                              /\ j.center = e.center}) = 1
  /\ Cardinality(wjobs \cup wdone)
       = Cardinality({n \in 1 .. Len(trace) : trace[n].stage = "egest"})
  /\ \A s \in 0 .. (Len(params.id_slices) - 1) :
       (islice > s \/ (islice = s /\ pc = "t_join")) =>
         /\ {<<trace[n].pos, trace[n].kk>> : n \in TryEgests(s)}
              = UNION {{<<j, r>> : r \in 0 .. (lschunk[j] - 1)} : j \in 0 .. (nschunk - 1)}
         /\ {trace[n].center : n \in TryEgests(s)}
              = {params.save_centers[i] : i \in DOMAIN params.save_centers}
         /\ Cardinality(TryEgests(s)) = Cardinality(DOMAIN params.save_centers)

C13_Witness ==
  /\ pc = "t_done"
  /\ Len(params.id_slices) = 2
  /\ nschunk = 2
  /\ lschunk[0] = 2
  /\ Cardinality(TryEgests(0)) = 3
  /\ Cardinality(TryEgests(1)) = 3
  /\ Cardinality(wdone) = 6

\* C17: whenever the scheduler of recon_all or recon_try is about to call run() on
\* write slot ithread, the thread held by that slot is not alive.
C17_DispatchOnlyToIdleSlot ==
  pc \in {"run", "t_run"} => ~is_alive(write_threads, wjobs, ithread)

\* C21: in recon_all, from the choice of write slot ithread by find_free_thread up to
\* the dispatch of its new job, no write job is running on that slot, and while a
\* transfer-out copy into the landing area of a slot is pending on stream3 no write
\* job is running on that slot.
C21_NoCopyIntoBusyLandingArea ==
  /\ (k > 1 /\ pc \in {"copy", "ingest", "sync3", "run"}) =>
       /\ ~is_alive(write_threads, wjobs, ithread)
       /\ \A j \in wjobs : j.slot # ithread
  /\ \A n \in 1 .. Len(stream3) :
       /\ stream3[n].slot = ithread
       /\ \A j \in wjobs : j.slot # stream3[n].slot

C21_Witness ==
  /\ pc = "ingest"
  /\ stream3 # <<>>
  /\ \E j \in wdone : j.slot = ithread
  /\ \E j \in wjobs : j.slot # ithread

\* C22: once recon_try has joined the write threads of a slice, no write_data_try job
\* of that slice is still running, and every job that has finished wrote the row it
\* was handed: the reconstruction of its slice with the shift of its center.
C22_SliceJobsDoneAndIntact ==
  /\ \A j \in wjobs : j.islice >= islice
  /\ \A j \in wdone :
       j.out = [slice |-> j.id_slice, sht |-> params.shift_array[j.pos * ncz + j.row]]

====
